---------------------------- MODULE Spec2Model ----------------------------
(***************************************************************************)
(* A model of backend/server.js: the Express REST handlers over the        *)
(* Project and Agent collections, the ChromaDB pass-through, the Socket.IO *)
(* presence channel and the seeding done by the listen callback.           *)
(*                                                                         *)
(* Every handler is an async function.  Its synchronous prefix ("Recv")    *)
(* reads the clock, builds and validates the document and ends at the      *)
(* first await; the handler is then a record in `inflight` that names the  *)
(* call it awaits.  A "Db" action is that call settling: the store applies *)
(* it atomically (or rejects it) and the continuation runs to the next     *)
(* await ("Chroma", where there is one) or to the response.  Handlers      *)
(* interleave only at awaits, as Node's event loop interleaves them.       *)
(***************************************************************************)
EXTENDS Integers, Sequences, FiniteSets, TLC

(* ------------------------------ bounds -------------------------------- *)
MaxClock == 1
MaxProjectId == 2
MaxInflight == 2
MaxSockets == 2
MaxBoots == 2
MaxMessages == 2

(* --------------------------- value domains ---------------------------- *)
NoId == -1
Malformed == 0
ProjectIds == 1..MaxProjectId
NoTime == -1
Times == 0..MaxClock
NoVal == "absent"
NoAgent == "none"
NoSock == 0

ProjectStatuses == {"planning", "active", "on-hold", "completed", "cancelled"}
AgentStatuses == {"online", "offline", "busy", "error"}

VARIABLES
  now,         \* Date.now(), in milliseconds
  projects,    \* the Project collection: _id -> document
  agents,      \* the Agent collection: a set of documents
  chroma,      \* the module-level client handle: "unset" or "client"
  chromaUp,    \* whether the ChromaDB service answers
  directory,   \* ids of the agent_directory collection
  messageLog,  \* number of entries of the agent_message_log collection
  sockets,     \* connected Socket.IO clients
  rooms,       \* socket -> agent rooms joined
  inflight,    \* handlers between two awaits
  done,        \* the response and the emits of the handler finishing in this step
  listen,      \* the listen callback: "init", "count", "insert", then "done",
               \* "failed" (the store rejected a call) or "duplicate" (E11000)
  agentCount,  \* the count the listen callback read
  seedAt,      \* Date.now() when the callback built the default documents
  seeded,      \* documents the callback of this start inserted
  boots,       \* process starts so far
  running,     \* the process is alive
  lastWrite,   \* per agentId: the handler that wrote its document last
  lastCreated, \* _id of the project of the last 201 of POST /api/projects
  tomb         \* per project id: "none", "deleted", or "recreated" after a delete

vars == <<now, projects, agents, chroma, chromaUp, directory,
          messageLog, sockets, rooms, inflight, done, listen, agentCount,
          seedAt, seeded,
          boots, running, lastWrite, lastCreated, tomb>>

projectVars == <<projects, lastCreated, tomb>>
agentVars == <<agents, lastWrite>>
chromaVars == <<chroma, chromaUp, directory, messageLog>>
socketVars == <<sockets, rooms>>
bootVars == <<listen, agentCount, seedAt, seeded, boots, running>>

(* ------------------------------ requests ------------------------------ *)
\* One shape for every handler record, so that records compare.
Req(op) ==
  [op |-> op, stage |-> "db", res |-> "", pid |-> NoId, aid |-> NoAgent,
   status |-> NoVal, at |-> NoTime, sock |-> NoSock, list |-> <<>>,
   found |-> {}, active |-> {}, wrote |-> FALSE, cres |-> ""]

NoDone == [Req("") EXCEPT !.stage = ""] @@ [code |-> 0, emits |-> <<>>]

\* The server takes requests and events from the moment it listens.
CanAccept == running /\ listen # "init" /\ Cardinality(inflight) < MaxInflight

\* A handler reaches its first await: it is in flight.
Enter(r) == inflight' = inflight \cup {r} /\ done' = NoDone

\* An awaited call settles and the handler reaches its next await.
Advance(r, s) == inflight' = (inflight \ {r}) \cup {s} /\ done' = NoDone

\* io.emit: to every connected client.
IoEmit(event) == [event |-> event, to |-> sockets]

\* An emit to the clients that joined a room only.
RoomEmit(event, sender) ==
  [event |-> event, to |-> {s \in sockets \ {sender} : rooms[s] # {}}]

\* socket.broadcast.emit: to every connected client except the sender.
BroadcastEmit(event, sender) == [event |-> event, to |-> sockets \ {sender}]

\* The handler ends: what it emitted and the status of its response.
Respond(r, code, emits) == done' = r @@ [code |-> code, emits |-> emits]

\* Handler r ends as s: r with the outcome of its last call.
Finish(r, s, code, emits) == inflight' = inflight \ {r} /\ Respond(s, code, emits)

(* ------------------------------- clock -------------------------------- *)
Tick ==
  /\ now < MaxClock
  /\ now' = now + 1
  /\ done' = NoDone
  /\ UNCHANGED <<projectVars, agentVars, chromaVars, socketVars, bootVars, inflight>>

(* ---------------------------- Project API ----------------------------- *)
\* projectSchema, as far as the handlers below read it: name is required,
\* status is one of the enum (default 'planning'), _id is an ObjectId, and
\* { timestamps: true } sets createdAt on save unless the document has one.
ProjectBodyValid(hasName, status, id) ==
  hasName /\ status \in ProjectStatuses \cup {NoVal} /\ id # Malformed

ProjectUpdateValid(status) == status \in ProjectStatuses \cup {NoVal}

\* A fresh ObjectId: one no document, past or in flight, carries.
FreshIds ==
  {p \in ProjectIds : /\ p \notin DOMAIN projects
                      /\ tomb[p] = "none"
                      /\ \A q \in inflight : q.pid # p}

Orderings(S) ==
  {f \in [1..Cardinality(S) -> S] : \A i, j \in 1..Cardinality(S) :
                                        i # j => f[i] # f[j]}

Descending(s, P) ==
  \A i, j \in DOMAIN s : i < j => P[s[i]].createdAt >= P[s[j]].createdAt

\* A find() without the sort: any order of the stored ids.
UnsortedFind(P) == Orderings(DOMAIN P)

\* Project.find().sort({ createdAt: -1 }): any order of the stored ids that is
\* non-increasing in createdAt (the store chooses among equal keys).
SortedFind(P) == {s \in Orderings(DOMAIN P) : Descending(s, P)}

Listing(s, P) == [i \in DOMAIN s |-> [id |-> s[i], createdAt |-> P[s[i]].createdAt]]

\* GET /api/projects
ListProjectsRecv ==
  /\ CanAccept
  /\ Enter(Req("listProjects"))
  /\ UNCHANGED <<now, projectVars, agentVars, chromaVars, socketVars, bootVars>>

ListProjectsDb ==
  \E r \in inflight :
  /\ r.op = "listProjects" /\ r.stage = "db"
  /\ \/ Finish(r, [r EXCEPT !.res = "dberr"], 500, <<>>)
     \/ \E s \in SortedFind(projects) :
          Finish(r, [r EXCEPT !.res = "ok", !.list = Listing(s, projects)], 200, <<>>)
  /\ UNCHANGED <<now, projectVars, agentVars, chromaVars, socketVars, bootVars>>

\* POST /api/projects: new Project(req.body), save(), emit, 201; 400 on a throw.
PostProjectEmits(r) == IF r.res = "ok" THEN <<IoEmit("projectCreated")>> ELSE <<>>

PostProjectCode(r) == IF r.res = "ok" THEN 201 ELSE 400

PostProjectRecv ==
  /\ CanAccept
  /\ \E createdAt \in {NoTime} \cup Times,
        body \in {[hasName |-> TRUE, status |-> NoVal],
                  [hasName |-> FALSE, status |-> NoVal],
                  [hasName |-> TRUE, status |-> "bogus"]},
        \* req.body._id when the body has one, else a fresh ObjectId
        id \in {Malformed} \cup ProjectIds \cup FreshIds :
       LET r == [Req("postProject") EXCEPT
                   !.pid = id,
                   !.at = IF createdAt = NoTime THEN now ELSE createdAt,
                   !.status = IF body.status = NoVal THEN "planning" ELSE body.status]
           bad == [r EXCEPT !.res = "invalid"]
       IN IF ProjectBodyValid(body.hasName, body.status, id)
          THEN Enter(r)
          ELSE Respond(bad, PostProjectCode(bad), PostProjectEmits(bad))
               /\ UNCHANGED inflight
  /\ UNCHANGED <<now, projectVars, agentVars, chromaVars, socketVars, bootVars>>

Insert(P, id, doc) == [p \in DOMAIN P \cup {id} |-> IF p = id THEN doc ELSE P[p]]

PostProjectDb ==
  \E r \in inflight :
  /\ r.op = "postProject" /\ r.stage = "db"
  /\ \/ /\ LET s == [r EXCEPT !.res = "dberr"]
           IN Finish(r, s, PostProjectCode(s), PostProjectEmits(s))
        /\ UNCHANGED <<projects, tomb, lastCreated>>
     \/ /\ r.pid \in DOMAIN projects
        /\ LET s == [r EXCEPT !.res = "duplicate"]
           IN Finish(r, s, PostProjectCode(s), PostProjectEmits(s))
        /\ UNCHANGED <<projects, tomb, lastCreated>>
     \/ /\ r.pid \notin DOMAIN projects
        /\ projects' = Insert(projects, r.pid, [createdAt |-> r.at, status |-> r.status])
        /\ tomb' = [tomb EXCEPT ![r.pid] = IF @ = "none" THEN "none" ELSE "recreated"]
        /\ lastCreated' = r.pid
        /\ LET s == [r EXCEPT !.res = "ok", !.wrote = TRUE]
           IN Finish(r, s, PostProjectCode(s), PostProjectEmits(s))
  /\ UNCHANGED <<now, agentVars, chromaVars, socketVars, bootVars>>

\* GET /api/projects/:id
GetProjectCode(r) ==
  CASE r.res = "ok" -> 200
    [] r.res = "null" -> 404
    [] OTHER -> 500

GetProjectRecv ==
  /\ CanAccept
  /\ \E id \in {Malformed} \cup ProjectIds :
       LET r == [Req("getProject") EXCEPT !.pid = id]
           bad == [r EXCEPT !.res = "cast"]
       IN IF id = Malformed
          THEN Respond(bad, GetProjectCode(bad), <<>>) /\ UNCHANGED inflight
          ELSE Enter(r)
  /\ UNCHANGED <<now, projectVars, agentVars, chromaVars, socketVars, bootVars>>

GetProjectDb ==
  \E r \in inflight :
  /\ r.op = "getProject" /\ r.stage = "db"
  /\ \E s \in {[r EXCEPT !.res = "dberr"],
               [r EXCEPT !.res = IF r.pid \in DOMAIN projects THEN "ok" ELSE "null"]} :
       Finish(r, s, GetProjectCode(s), <<>>)
  /\ UNCHANGED <<now, projectVars, agentVars, chromaVars, socketVars, bootVars>>

\* PUT /api/projects/:id: findByIdAndUpdate(id, body, {new, runValidators}).
PutProjectCode(r) ==
  CASE r.res = "ok" -> 200
    [] r.res = "null" -> 404
    [] OTHER -> 400

\* A handler that emits before it looks at the outcome.
EmitAlways(r) == <<IoEmit("projectUpdated")>>

PutProjectEmits(r) == IF r.res = "ok" THEN <<IoEmit("projectUpdated")>> ELSE <<>>

PutProjectRecv ==
  /\ CanAccept
  /\ \E id \in {Malformed} \cup ProjectIds, status \in {"completed", "bogus"} :
       LET r == [Req("putProject") EXCEPT !.pid = id, !.status = status]
           bad == [r EXCEPT !.res = IF id = Malformed THEN "cast" ELSE "invalid"]
       IN IF id = Malformed \/ ~ProjectUpdateValid(status)
          THEN Respond(bad, PutProjectCode(bad), PutProjectEmits(bad))
               /\ UNCHANGED inflight
          ELSE Enter(r)
  /\ UNCHANGED <<now, projectVars, agentVars, chromaVars, socketVars, bootVars>>

\* An update that upserts: it creates the document the id does not match.
UpsertProject(P, id, status) ==
  [p \in DOMAIN P \cup {id} |->
     IF p = id THEN [createdAt |-> 0, status |-> status] ELSE P[p]]

\* What findByIdAndUpdate leaves in the collection.
UpdateProject(P, id, status) ==
  IF id \in DOMAIN P THEN [P EXCEPT ![id].status = status] ELSE P

PutProjectDb ==
  \E r \in inflight :
  /\ r.op = "putProject" /\ r.stage = "db"
  /\ \/ /\ LET s == [r EXCEPT !.res = "dberr"]
           IN Finish(r, s, PutProjectCode(s), PutProjectEmits(s))
        /\ UNCHANGED projects
     \/ /\ projects' = UpdateProject(projects, r.pid, r.status)
        /\ LET s == IF r.pid \in DOMAIN projects
                    THEN [r EXCEPT !.res = "ok", !.wrote = TRUE]
                    ELSE [r EXCEPT !.res = "null"]
           IN Finish(r, s, PutProjectCode(s), PutProjectEmits(s))
  /\ UNCHANGED <<now, lastCreated, tomb, agentVars, chromaVars, socketVars, bootVars>>

\* DELETE /api/projects/:id: findByIdAndDelete(id).
DeleteProjectCode(r) ==
  CASE r.res = "ok" -> 200
    [] r.res = "null" -> 404
    [] OTHER -> 500

DeleteProjectEmits(r) == IF r.res = "ok" THEN <<IoEmit("projectDeleted")>> ELSE <<>>

DeleteProjectRecv ==
  /\ CanAccept
  /\ \E id \in {Malformed} \cup ProjectIds :
       LET r == [Req("deleteProject") EXCEPT !.pid = id]
           bad == [r EXCEPT !.res = "cast"]
       IN IF id = Malformed
          THEN Respond(bad, DeleteProjectCode(bad), DeleteProjectEmits(bad))
               /\ UNCHANGED inflight
          ELSE Enter(r)
  /\ UNCHANGED <<now, projectVars, agentVars, chromaVars, socketVars, bootVars>>

\* A delete that answers but removes nothing.
KeepAll(P, id) == P

Remove(P, id) == [p \in DOMAIN P \ {id} |-> P[p]]

DeleteProjectDb ==
  \E r \in inflight :
  /\ r.op = "deleteProject" /\ r.stage = "db"
  /\ \/ /\ LET s == [r EXCEPT !.res = "dberr"]
           IN Finish(r, s, DeleteProjectCode(s), DeleteProjectEmits(s))
        /\ UNCHANGED <<projects, tomb>>
     \/ /\ r.pid \notin DOMAIN projects
        /\ LET s == [r EXCEPT !.res = "null"]
           IN Finish(r, s, DeleteProjectCode(s), DeleteProjectEmits(s))
        /\ UNCHANGED <<projects, tomb>>
     \/ /\ r.pid \in DOMAIN projects
        /\ projects' = Remove(projects, r.pid)
        /\ tomb' = [tomb EXCEPT ![r.pid] = "deleted"]
        /\ LET s == [r EXCEPT !.res = "ok", !.wrote = TRUE]
           IN Finish(r, s, DeleteProjectCode(s), DeleteProjectEmits(s))
  /\ UNCHANGED <<now, lastCreated, agentVars, chromaVars, socketVars, bootVars>>

(* ----------------------------- Agent model ---------------------------- *)
\* defaultAgents of the listen callback (the name and the port are not read
\* by anything modelled here).
DefaultAgents ==
  << [agentId |-> "THEO-5001", type |-> "frontend"],
     [agentId |-> "MARCUS-5002", type |-> "backend"],
     [agentId |-> "ALEX-5003", type |-> "fullstack"],
     [agentId |-> "QUINN-5004", type |-> "qa"],
     [agentId |-> "ACI-5005", type |-> "orchestration"],
     [agentId |-> "DAVID-6001", type |-> "backend"],
     [agentId |-> "ELENA-6002", type |-> "backend"],
     [agentId |-> "FRANK-6003", type |-> "frontend"],
     [agentId |-> "GRACE-6004", type |-> "fullstack"],
     [agentId |-> "HENRY-6005", type |-> "fullstack"],
     [agentId |-> "IRIS-6006", type |-> "devops"],
     [agentId |-> "JACK-6007", type |-> "frontend"],
     [agentId |-> "KELLY-6008", type |-> "frontend"],
     [agentId |-> "LIAM-6009", type |-> "frontend"],
     [agentId |-> "MAYA-6010", type |-> "frontend"],
     [agentId |-> "NOAH-6011", type |-> "qa"],
     [agentId |-> "OLIVIA-6012", type |-> "design"] >>

\* The agentIds that requests and events carry: one of the defaults and one
\* that is not.
ClientAgentIds == {"MARCUS-5002", "NOVA-7001"}

\* A path parameter that is no ObjectId.
BadOid == "not-an-objectid"

AgentDoc(a, status, at) == [agentId |-> a, status |-> status, lastSeen |-> at]

Docs(coll, a) == {d \in coll : d.agentId = a}

\* agentId: { unique: true }: whether the index admits a new document.
UniqueAgentId(coll, a) == Docs(coll, a) = {}

\* status: { enum: [...] }, as save(), insertMany() and runValidators check it.
AgentStatusValid(status) == status \in AgentStatuses \cup {NoVal}

Wrote(by, status, at) == [by |-> by, status |-> status, at |-> at]

NoWrite == Wrote("none", NoVal, NoTime)

Note(a, w) == IF a \in ClientAgentIds THEN [lastWrite EXCEPT ![a] = w] ELSE lastWrite

\* Agent.insertMany(docs), ordered: one document after the other, up to the
\* first one the unique index refuses.
RECURSIVE InsertMany(_, _, _, _)
InsertMany(coll, docs, i, at) ==
  IF i > Len(docs) THEN [coll |-> coll, ok |-> TRUE]
  ELSE IF ~UniqueAgentId(coll, docs[i].agentId) THEN [coll |-> coll, ok |-> FALSE]
  ELSE InsertMany(coll \cup {AgentDoc(docs[i].agentId, "offline", at)}, docs, i + 1, at)

(* -------------------------- the listen callback ----------------------- *)
\* initChroma: the constructor opens no connection; the handle stays unset
\* only when the constructor throws.
ListenInit ==
  /\ running /\ listen = "init"
  /\ chroma' \in {"client", "unset"}
  /\ listen' = "count"
  /\ done' = NoDone
  /\ UNCHANGED <<now, projectVars, agentVars, chromaUp, directory, messageLog,
                 socketVars, inflight, agentCount, seedAt, seeded, boots, running>>

\* A rejection in the callback is unhandled: the process ends, or warns and
\* goes on, as the Node version has it.
ListenCount ==
  /\ running /\ listen = "count"
  /\ \/ /\ agentCount' = Cardinality(agents)
        /\ listen' = IF Cardinality(agents) = 0 THEN "insert" ELSE "done"
        /\ seedAt' = now
        /\ UNCHANGED running
     \/ /\ listen' = "failed"
        /\ running' \in BOOLEAN
        /\ UNCHANGED <<agentCount, seedAt>>
  /\ done' = NoDone
  /\ UNCHANGED <<now, projectVars, agentVars, chromaVars, socketVars, inflight,
                 seeded, boots>>

ListenInsert ==
  /\ running /\ listen = "insert"
  /\ \/ /\ listen' = "failed"
        /\ running' \in BOOLEAN
        /\ UNCHANGED <<agents, lastWrite, seeded>>
     \/ LET out == InsertMany(agents, DefaultAgents, 1, seedAt)
        IN /\ agents' = out.coll
           /\ seeded' = Cardinality(out.coll) - Cardinality(agents)
           /\ lastWrite' = [a \in ClientAgentIds |->
                              IF Docs(out.coll, a) # Docs(agents, a)
                              THEN Wrote("seed", "offline", seedAt) ELSE lastWrite[a]]
           /\ IF out.ok THEN listen' = "done" /\ UNCHANGED running
              ELSE listen' = "duplicate" /\ running' \in BOOLEAN
  /\ done' = NoDone
  /\ UNCHANGED <<now, projectVars, chromaVars, socketVars, inflight, agentCount,
                 seedAt, boots>>

\* The process starts again (a crash, a redeploy): what it held in memory is
\* gone, the collections stay.
Restart ==
  /\ boots < MaxBoots
  /\ boots' = boots + 1
  /\ running' = TRUE
  /\ listen' = "init"
  /\ seeded' = 0
  /\ chroma' = "unset"
  /\ inflight' = {}
  /\ sockets' = {}
  /\ rooms' = [s \in 1..MaxSockets |-> {}]
  /\ done' = NoDone
  /\ UNCHANGED <<now, projectVars, agentVars, chromaUp, directory, messageLog,
                 agentCount, seedAt>>

(* --------------------------- presence channel ------------------------- *)
Connect ==
  /\ running /\ listen # "init"
  /\ \E s \in (1..MaxSockets) \ sockets : sockets' = sockets \cup {s}
  /\ done' = NoDone
  /\ UNCHANGED <<now, projectVars, agentVars, chromaVars, rooms, bootVars, inflight>>

Disconnect ==
  /\ \E s \in sockets :
       /\ sockets' = sockets \ {s}
       /\ rooms' = [rooms EXCEPT ![s] = {}]
  /\ done' = NoDone
  /\ UNCHANGED <<now, projectVars, agentVars, chromaVars, bootVars, inflight>>

\* socket.on('joinAgent')
JoinAgent ==
  /\ running
  /\ \E s \in sockets, a \in ClientAgentIds : rooms' = [rooms EXCEPT ![s] = @ \cup {a}]
  /\ done' = NoDone
  /\ UNCHANGED <<now, projectVars, agentVars, chromaVars, sockets, bootVars, inflight>>

\* socket.on('agentStatus'): findOneAndUpdate({agentId}, {status, lastSeen:
\* new Date(), ...data}, {upsert: true}), then socket.broadcast.emit.  The
\* events modelled carry { agentId, status } and nothing else.
AgentStatusRecv ==
  /\ CanAccept
  /\ \E s \in sockets, a \in ClientAgentIds, status \in {"online", "idle"} :
       Enter([Req("agentStatus") EXCEPT
                !.sock = s, !.aid = a, !.status = status, !.at = now])
  /\ UNCHANGED <<now, projectVars, agentVars, chromaVars, socketVars, bootVars>>

\* An update that keeps the later of the two lastSeen.
KeepNewer(d, status, at) ==
  IF at >= d.lastSeen THEN [d EXCEPT !.status = status, !.lastSeen = at] ELSE d

\* The $set of the update, on the document it matches.
SetStatus(d, status, at) == [d EXCEPT !.status = status, !.lastSeen = at]

AgentStatusEmits(r) ==
  IF r.wrote THEN <<BroadcastEmit("agentStatusUpdate", r.sock)>> ELSE <<>>

Applied(r, res) == [r EXCEPT !.res = res, !.wrote = TRUE]

UpdateOne(r, res) ==
  \E d \in Docs(agents, r.aid) :
    /\ agents' = (agents \ {d}) \cup {SetStatus(d, r.status, r.at)}
    /\ lastWrite' = Note(r.aid, Wrote("event", r.status, r.at))
    /\ Finish(r, Applied(r, res), 0, AgentStatusEmits(Applied(r, res)))

\* The store takes the call: it updates the document the filter matches, or
\* finds none and goes on to insert one.
AgentStatusDb ==
  \E r \in inflight :
  /\ r.op = "agentStatus" /\ r.stage = "db"
  /\ \/ /\ LET s == [r EXCEPT !.res = "dberr"]
           IN Finish(r, s, 0, AgentStatusEmits(s))
        /\ UNCHANGED agentVars
     \/ UpdateOne(r, "updated")
     \/ /\ Docs(agents, r.aid) = {}
        /\ Advance(r, [r EXCEPT !.stage = "insert"])
        /\ UNCHANGED agentVars
  /\ UNCHANGED <<now, projectVars, chromaVars, socketVars, bootVars>>

\* The insert of an upsert.  When another insert came first, the index
\* refuses this one: the store runs the call again as an update, or rejects
\* it with E11000, as the server version has it.
AgentStatusInsert ==
  \E r \in inflight :
  /\ r.op = "agentStatus" /\ r.stage = "insert"
  /\ \/ /\ UniqueAgentId(agents, r.aid)
        /\ agents' = agents \cup {AgentDoc(r.aid, r.status, r.at)}
        /\ lastWrite' = Note(r.aid, Wrote("event", r.status, r.at))
        /\ Finish(r, Applied(r, "inserted"), 0, AgentStatusEmits(Applied(r, "inserted")))
     \/ /\ ~UniqueAgentId(agents, r.aid)
        /\ \/ UpdateOne(r, "retried")
           \/ /\ LET s == [r EXCEPT !.res = "duplicate"]
                 IN Finish(r, s, 0, AgentStatusEmits(s))
              /\ UNCHANGED agentVars
  /\ UNCHANGED <<now, projectVars, chromaVars, socketVars, bootVars>>

(* ------------------------------ Agent API ----------------------------- *)
\* POST /api/agents: save(), then the registration in agent_directory when
\* there is a handle (its failure is logged), emit, 201; 400 on a throw.
\* The bodies modelled have a name and a type of the enum.
\* A handler that passes the failure of the registration on to its caller.
RegistrationRequired(r) == IF r.res = "ok" /\ r.cres # "error" THEN 201 ELSE 400

PostAgentCode(r) == IF r.res = "ok" THEN 201 ELSE 400

PostAgentEmits(r) == IF r.res = "ok" THEN <<IoEmit("agentRegistered")>> ELSE <<>>

PostAgentRecv ==
  /\ CanAccept
  /\ \E body \in {[agentId |-> a, status |-> NoVal] : a \in ClientAgentIds \cup {NoAgent}}
                  \cup {[agentId |-> a, status |-> "idle"] : a \in ClientAgentIds} :
       LET r == [Req("postAgent") EXCEPT
                   !.aid = body.agentId, !.at = now,
                   !.status = IF body.status = NoVal THEN "offline" ELSE body.status]
           bad == [r EXCEPT !.res = "invalid"]
       IN IF body.agentId # NoAgent /\ AgentStatusValid(body.status)
          THEN Enter(r)
          ELSE Respond(bad, PostAgentCode(bad), PostAgentEmits(bad))
               /\ UNCHANGED inflight
  /\ UNCHANGED <<now, projectVars, agentVars, chromaVars, socketVars, bootVars>>

PostAgentDb ==
  \E r \in inflight :
  /\ r.op = "postAgent" /\ r.stage = "db"
  /\ \/ /\ \E s \in {[r EXCEPT !.res = "dberr"]} \cup
                    (IF UniqueAgentId(agents, r.aid) THEN {}
                     ELSE {[r EXCEPT !.res = "duplicate"]}) :
             Finish(r, s, PostAgentCode(s), PostAgentEmits(s))
        /\ UNCHANGED agentVars
     \/ /\ UniqueAgentId(agents, r.aid)
        /\ agents' = agents \cup {AgentDoc(r.aid, r.status, r.at)}
        /\ lastWrite' = Note(r.aid, Wrote("post", r.status, r.at))
        /\ LET s == [r EXCEPT !.res = "ok", !.wrote = TRUE]
           IN IF chroma = "client"
              THEN Advance(r, [s EXCEPT !.stage = "chroma"])
              ELSE LET t == [s EXCEPT !.cres = "skipped"]
                   IN Finish(r, t, PostAgentCode(t), PostAgentEmits(t))
  /\ UNCHANGED <<now, projectVars, chromaVars, socketVars, bootVars>>

\* getOrCreateCollection('agent_directory'), collection.add({ids: [agentId]}).
PostAgentChroma ==
  \E r \in inflight :
  /\ r.op = "postAgent" /\ r.stage = "chroma"
  /\ \/ /\ chromaUp /\ r.aid \notin directory
        /\ directory' = directory \cup {r.aid}
        /\ LET s == [r EXCEPT !.cres = "ok"]
           IN Finish(r, s, PostAgentCode(s), PostAgentEmits(s))
     \/ /\ ~chromaUp \/ r.aid \in directory
        /\ UNCHANGED directory
        /\ LET s == [r EXCEPT !.cres = "error"]
           IN Finish(r, s, PostAgentCode(s), PostAgentEmits(s))
  /\ UNCHANGED <<now, projectVars, agentVars, chroma, chromaUp, messageLog,
                 socketVars, bootVars>>

\* PUT /api/agents/:id: findByIdAndUpdate(id, {...body, lastSeen: new Date()},
\* {new, runValidators}).  The _id of an agent is written as the agentId of
\* its document: agents are never deleted, so the two correspond one to one.
PutAgentCode(r) ==
  CASE r.res = "ok" -> 200
    [] r.res = "null" -> 404
    [] OTHER -> 400

PutAgentEmits(r) == IF r.res = "ok" THEN <<IoEmit("agentUpdated")>> ELSE <<>>

PutAgentRecv ==
  /\ CanAccept
  /\ \E id \in ClientAgentIds \cup {BadOid}, status \in {"busy", "idle"} :
       LET r == [Req("putAgent") EXCEPT !.aid = id, !.status = status, !.at = now]
           bad == [r EXCEPT !.res = IF id = BadOid THEN "cast" ELSE "invalid"]
       IN IF id = BadOid \/ ~AgentStatusValid(status)
          THEN Respond(bad, PutAgentCode(bad), PutAgentEmits(bad))
               /\ UNCHANGED inflight
          ELSE Enter(r)
  /\ UNCHANGED <<now, projectVars, agentVars, chromaVars, socketVars, bootVars>>

PutAgentDb ==
  \E r \in inflight :
  /\ r.op = "putAgent" /\ r.stage = "db"
  /\ \/ /\ \E s \in {[r EXCEPT !.res = "dberr"]} \cup
                    (IF Docs(agents, r.aid) = {} THEN {[r EXCEPT !.res = "null"]}
                     ELSE {}) :
             Finish(r, s, PutAgentCode(s), PutAgentEmits(s))
        /\ UNCHANGED agentVars
     \/ \E d \in Docs(agents, r.aid) :
          /\ agents' = (agents \ {d}) \cup {SetStatus(d, r.status, r.at)}
          /\ lastWrite' = Note(r.aid, Wrote("put", r.status, r.at))
          /\ LET s == [r EXCEPT !.res = "ok", !.wrote = TRUE]
             IN Finish(r, s, PutAgentCode(s), PutAgentEmits(s))
  /\ UNCHANGED <<now, projectVars, chromaVars, socketVars, bootVars>>

\* GET /api/agents: Agent.find(), then the ids of agent_directory when there
\* is a handle (a failure is logged and leaves chromaAgents empty), then the
\* merge.  found and active are dbAgents and chromaAgents; the order of the
\* answer is not modelled.
ListAgentsCode(r) == IF r.res = "ok" THEN 200 ELSE 500

AgentIdsOf(coll) == {d.agentId : d \in coll}

ChromaStatus(r, a) == IF a \in r.active THEN "active" ELSE "inactive"

ListAgentsRecv ==
  /\ CanAccept
  /\ Enter(Req("listAgents"))
  /\ UNCHANGED <<now, projectVars, agentVars, chromaVars, socketVars, bootVars>>

ListAgentsDb ==
  \E r \in inflight :
  /\ r.op = "listAgents" /\ r.stage = "db"
  /\ \/ LET s == [r EXCEPT !.res = "dberr"]
        IN Finish(r, s, ListAgentsCode(s), <<>>)
     \/ LET s == [r EXCEPT !.res = "ok", !.found = AgentIdsOf(agents)]
        IN IF chroma = "client"
           THEN Advance(r, [s EXCEPT !.stage = "chroma"])
           ELSE LET t == [s EXCEPT !.cres = "skipped"]
                IN Finish(r, t, ListAgentsCode(t), <<>>)
  /\ UNCHANGED <<now, projectVars, agentVars, chromaVars, socketVars, bootVars>>

ListAgentsChroma ==
  \E r \in inflight :
  /\ r.op = "listAgents" /\ r.stage = "chroma"
  /\ LET s == IF chromaUp THEN [r EXCEPT !.cres = "ok", !.active = directory]
              ELSE [r EXCEPT !.cres = "error"]
     IN Finish(r, s, ListAgentsCode(s), <<>>)
  /\ UNCHANGED <<now, projectVars, agentVars, chromaVars, socketVars, bootVars>>

(* ----------------------------- messaging ------------------------------ *)
\* POST /api/agents/message: 503 without a handle; otherwise
\* getOrCreateCollection and add on agent_message_log, emit, 200; a
\* rejection of either call goes to the catch, 500.
PostMessageCode(r) ==
  CASE r.res = "ok" -> 200
    [] r.res = "nochroma" -> 503
    [] OTHER -> 500

PostMessageEmits(r) == IF r.res = "ok" THEN <<IoEmit("newMessage")>> ELSE <<>>

Sending == {r \in inflight : r.op = "postMessage"}

PostMessageRecv ==
  /\ CanAccept
  /\ messageLog + Cardinality(Sending) < MaxMessages
  /\ LET r == [Req("postMessage") EXCEPT !.stage = "chroma"]
         no == [r EXCEPT !.res = "nochroma"]
     IN IF chroma = "unset"
        THEN Respond(no, PostMessageCode(no), PostMessageEmits(no))
             /\ UNCHANGED inflight
        ELSE Enter(r)
  /\ UNCHANGED <<now, projectVars, agentVars, chromaVars, socketVars, bootVars>>

PostMessageChroma ==
  \E r \in inflight :
  /\ r.op = "postMessage" /\ r.stage = "chroma"
  /\ IF chromaUp
     THEN /\ messageLog' = messageLog + 1
          /\ LET s == [r EXCEPT !.res = "ok", !.cres = "ok", !.wrote = TRUE]
             IN Finish(r, s, PostMessageCode(s), PostMessageEmits(s))
     ELSE /\ UNCHANGED messageLog
          /\ LET s == [r EXCEPT !.res = "chromaerr", !.cres = "error"]
             IN Finish(r, s, PostMessageCode(s), PostMessageEmits(s))
  /\ UNCHANGED <<now, projectVars, agentVars, chroma, chromaUp, directory,
                 socketVars, bootVars>>

\* GET /api/agents/messages: 503 without a handle; otherwise getCollection
\* and query; a rejection goes to the catch, 500.  getCollection rejects
\* when agent_message_log was never created: with no message logged yet
\* the collection may or may not be there.
GetMessagesCode(r) ==
  CASE r.res = "ok" -> 200
    [] r.res = "nochroma" -> 503
    [] OTHER -> 500

GetMessagesRecv ==
  /\ CanAccept
  /\ LET r == [Req("getMessages") EXCEPT !.stage = "chroma"]
         no == [r EXCEPT !.res = "nochroma"]
     IN IF chroma = "unset"
        THEN Respond(no, GetMessagesCode(no), <<>>) /\ UNCHANGED inflight
        ELSE Enter(r)
  /\ UNCHANGED <<now, projectVars, agentVars, chromaVars, socketVars, bootVars>>

GetMessagesChroma ==
  \E r \in inflight :
  /\ r.op = "getMessages" /\ r.stage = "chroma"
  /\ \E s \in (IF chromaUp THEN {[r EXCEPT !.res = "ok", !.cres = "ok"]} ELSE {})
              \cup (IF chromaUp /\ messageLog > 0 THEN {}
                    ELSE {[r EXCEPT !.res = "chromaerr", !.cres = "error"]}) :
       Finish(r, s, GetMessagesCode(s), <<>>)
  /\ UNCHANGED <<now, projectVars, agentVars, chromaVars, socketVars, bootVars>>

(* -------------------------- health and stats -------------------------- *)
\* GET /api/health: heartbeat() when there is a handle; 200 in every case.
HealthCode(r) == 200

HealthRecv ==
  /\ CanAccept
  /\ LET r == [Req("health") EXCEPT !.stage = "chroma", !.res = "ok"]
         no == [r EXCEPT !.cres = "skipped"]
     IN IF chroma = "unset"
        THEN Respond(no, HealthCode(no), <<>>) /\ UNCHANGED inflight
        ELSE Enter(r)
  /\ UNCHANGED <<now, projectVars, agentVars, chromaVars, socketVars, bootVars>>

HealthChroma ==
  \E r \in inflight :
  /\ r.op = "health" /\ r.stage = "chroma"
  /\ LET s == [r EXCEPT !.cres = IF chromaUp THEN "ok" ELSE "error"]
     IN Finish(r, s, HealthCode(s), <<>>)
  /\ UNCHANGED <<now, projectVars, agentVars, chromaVars, socketVars, bootVars>>

\* GET /api/stats: four countDocuments, then listCollections when there is a
\* handle (a failure is logged); 500 when a count rejects.
StatsCode(r) == IF r.res = "ok" THEN 200 ELSE 500

StatsRecv ==
  /\ CanAccept
  /\ Enter(Req("stats"))
  /\ UNCHANGED <<now, projectVars, agentVars, chromaVars, socketVars, bootVars>>

StatsDb ==
  \E r \in inflight :
  /\ r.op = "stats" /\ r.stage = "db"
  /\ \/ LET s == [r EXCEPT !.res = "dberr"]
        IN Finish(r, s, StatsCode(s), <<>>)
     \/ LET s == [r EXCEPT !.res = "ok"]
        IN IF chroma = "client"
           THEN Advance(r, [s EXCEPT !.stage = "chroma"])
           ELSE LET t == [s EXCEPT !.cres = "skipped"]
                IN Finish(r, t, StatsCode(t), <<>>)
  /\ UNCHANGED <<now, projectVars, agentVars, chromaVars, socketVars, bootVars>>

StatsChroma ==
  \E r \in inflight :
  /\ r.op = "stats" /\ r.stage = "chroma"
  /\ LET s == [r EXCEPT !.cres = IF chromaUp THEN "ok" ELSE "error"]
     IN Finish(r, s, StatsCode(s), <<>>)
  /\ UNCHANGED <<now, projectVars, agentVars, chromaVars, socketVars, bootVars>>

\* The vector store at CHROMA_URL goes down or comes back.
ChromaFlip ==
  /\ chromaUp' = ~chromaUp
  /\ done' = NoDone
  /\ UNCHANGED <<now, projectVars, agentVars, chroma, directory, messageLog,
                 socketVars, bootVars, inflight>>

(* --------------------------- specifications --------------------------- *)
\* The process has just started on empty collections.
Init ==
  /\ now = 0
  /\ projects = <<>>
  /\ agents = {}
  /\ lastWrite = [a \in ClientAgentIds |-> NoWrite]
  /\ chroma = "unset"
  /\ chromaUp = FALSE
  /\ directory = {}
  /\ messageLog = 0
  /\ sockets = {}
  /\ rooms = [s \in 1..MaxSockets |-> {}]
  /\ inflight = {}
  /\ done = NoDone
  /\ listen = "init"
  /\ agentCount = 0
  /\ seedAt = 0
  /\ seeded = 0
  /\ boots = 1
  /\ running = TRUE
  /\ lastCreated = NoId
  /\ tomb = [p \in ProjectIds |-> "none"]

\* The server after its first start: the callback has seeded the defaults.
Serving ==
  /\ now = 0
  /\ projects = <<>>
  /\ agents = InsertMany({}, DefaultAgents, 1, 0).coll
  /\ lastWrite = [a \in ClientAgentIds |->
                    IF Docs(agents, a) # {} THEN Wrote("seed", "offline", 0) ELSE NoWrite]
  /\ chroma \in {"client", "unset"}
  /\ chromaUp \in BOOLEAN
  /\ directory = {}
  /\ messageLog = 0
  /\ sockets = {}
  /\ rooms = [s \in 1..MaxSockets |-> {}]
  /\ inflight = {}
  /\ done = NoDone
  /\ listen = "done"
  /\ agentCount = 0
  /\ seedAt = 0
  /\ seeded = Len(DefaultAgents)
  /\ boots = 1
  /\ running = TRUE
  /\ lastCreated = NoId
  /\ tomb = [p \in ProjectIds |-> "none"]

ProjectStep ==
  \/ Tick
  \/ ListProjectsRecv
  \/ PostProjectRecv
  \/ GetProjectRecv
  \/ PutProjectRecv
  \/ DeleteProjectRecv
  \/ ListProjectsDb
  \/ PostProjectDb
  \/ GetProjectDb
  \/ PutProjectDb
  \/ DeleteProjectDb

\* A serving process whose vector store answers.
InitProjects == Serving /\ chroma = "client" /\ chromaUp

\* The project API of a serving process.
SpecProjects == InitProjects /\ [][ProjectStep]_vars

SeedStep ==
  \/ ListenInit
  \/ ListenCount
  \/ ListenInsert
  \/ Restart
  \/ Connect /\ sockets' = {1}
  \/ AgentStatusRecv
  \/ AgentStatusDb
  \/ AgentStatusInsert
  \/ PostAgentRecv
  \/ PostAgentDb
  \/ PostAgentChroma
  \/ PutAgentRecv
  \/ PutAgentDb

\* Starts of the process, and the writers of the Agent collection, with one
\* client on the presence channel.
SpecSeed == Init /\ [][SeedStep]_vars

StatusStep ==
  \/ Tick
  \/ Connect
  \/ Disconnect
  \/ JoinAgent /\ \A s \in sockets : rooms'[s] \subseteq {"NOVA-7001"}
  \/ AgentStatusRecv
  \/ AgentStatusDb
  \/ AgentStatusInsert

\* The presence channel of a serving process.
SpecStatus == InitProjects /\ [][StatusStep]_vars

ChromaStep ==
  \/ ChromaFlip
  \/ Connect /\ sockets' = {1}
  \/ PostAgentRecv
  \/ PostAgentDb
  \/ PostAgentChroma
  \/ ListAgentsRecv
  \/ ListAgentsDb
  \/ ListAgentsChroma
  \/ PostMessageRecv
  \/ PostMessageChroma
  \/ GetMessagesRecv
  \/ GetMessagesChroma
  \/ HealthRecv
  \/ HealthChroma
  \/ StatsRecv
  \/ StatsDb
  \/ StatsChroma

\* The handlers that reach the vector store, with or without a handle, while
\* the store goes down and comes back.
SpecChroma == Serving /\ [][ChromaStep]_vars

\* One request at a time, on the project with _id 1.
Sequential ==
  /\ Cardinality(inflight') <= 1
  /\ \A r \in inflight' : r.pid \in {NoId, 1} /\ r.at \in {NoTime, now}

MutationStep ==
  \/ Connect /\ sockets' = {1}
  \/ ChromaFlip
  \/ PostProjectRecv /\ Sequential
  \/ PostProjectDb
  \/ PutProjectRecv /\ Sequential
  \/ PutProjectDb
  \/ DeleteProjectRecv /\ Sequential
  \/ DeleteProjectDb
  \/ PostAgentRecv /\ Sequential
  \/ PostAgentDb
  \/ PostAgentChroma
  \/ PutAgentRecv /\ Sequential
  \/ PutAgentDb
  \/ PostMessageRecv /\ Sequential
  \/ PostMessageChroma

\* The mutating REST operations, served one after the other.
SpecMutations == Serving /\ [][MutationStep]_vars

(* --------------------------- project claims --------------------------- *)
PutMiss == done.op = "putProject" /\ done.pid \notin DOMAIN projects

C4_Codes ==
  PutMiss => /\ done.code \in {400, 404}
             /\ done.code = 404 <=> /\ done.pid # Malformed
                                    /\ ProjectUpdateValid(done.status)
                                    /\ done.res # "dberr"

C4_Unchanged ==
  (done'.op = "putProject" /\ done'.pid \notin DOMAIN projects) => projects' = projects

CreateInFlight == \E q \in inflight : q.op = "postProject"

ListOk == done.op = "listProjects" /\ done.code = 200

\* The project of the last 201 of POST /api/projects, when it is still stored
\* and no other create is under way.
Newest == IF lastCreated \in DOMAIN projects /\ ~CreateInFlight THEN lastCreated ELSE NoId

\* C5 as stated: the GET /api/projects that follows a successful POST, with no
\* other create in between, has the created project as its first element.
C5_AsClaimed == (ListOk /\ Newest # NoId) => done.list[1].id = Newest

\* C5, amended: GET /api/projects returns every stored project, in
\* non-increasing order of the stored createdAt; the project created last is
\* the first element whenever its createdAt is greater than that of every
\* other stored project (createdAt is the body's when the body has one, and
\* the order among equal createdAt is the store's choice).
C5_NewestFirst ==
  ListOk =>
    /\ {done.list[i].id : i \in DOMAIN done.list} = DOMAIN projects
    /\ Len(done.list) = Cardinality(DOMAIN projects)
    /\ \A i \in DOMAIN done.list : done.list[i].createdAt = projects[done.list[i].id].createdAt
    /\ \A i, j \in DOMAIN done.list :
         i < j => done.list[i].createdAt >= done.list[j].createdAt
    /\ (Newest # NoId /\ \A p \in DOMAIN projects \ {Newest} :
                            projects[Newest].createdAt > projects[p].createdAt)
         => done.list[1].id = Newest

C5_Witness ==
  /\ ListOk /\ Len(done.list) = 2 /\ Newest = done.list[1].id
  /\ done.list[1].createdAt > done.list[2].createdAt

\* C6 as stated: once DELETE /api/projects/:id has succeeded for an id, no
\* later list contains that id and a later fetch of it is answered 404
\* (whenever the store answers the query at all).
C6_AsClaimed ==
  /\ ListOk => \A i \in DOMAIN done.list : tomb[done.list[i].id] = "none"
  /\ (done.op = "getProject" /\ done.pid \in ProjectIds /\ done.res # "dberr")
       => (tomb[done.pid] # "none" => done.code = 404)

\* C6, amended: once DELETE /api/projects/:id has succeeded for an id, the
\* project is absent from the collection, from every list and from fetch by id
\* (404, or 500 when the store rejects the query) until a POST /api/projects
\* whose body carries that _id creates a project under it again.
C6_DeletedStaysGone ==
  /\ \A p \in ProjectIds : tomb[p] = "deleted" => p \notin DOMAIN projects
  /\ ListOk => \A i \in DOMAIN done.list : tomb[done.list[i].id] # "deleted"
  /\ (done.op = "getProject" /\ done.pid \in ProjectIds /\ tomb[done.pid] = "deleted")
       => \/ done.code = 404
          \/ done.code = 500 /\ done.res = "dberr"
  /\ (done.op = "deleteProject" /\ done.code = 200) => tomb[done.pid] = "deleted"

C6_Witness ==
  /\ done.op = "getProject" /\ done.pid \in ProjectIds
  /\ tomb[done.pid] = "deleted" /\ done.code = 404

(* ---------------------------- agent claims ---------------------------- *)
\* C1 as stated: a listen callback that counted zero Agent documents inserts
\* the 17 defaults, and one that counted at least one inserts none (the
\* starts in which the store rejected a call outright are left aside).
C1_AsClaimed ==
  listen \in {"done", "duplicate"} =>
    IF agentCount = 0
    THEN /\ seeded = Len(DefaultAgents)
         /\ \A i \in DOMAIN DefaultAgents :
              Cardinality(Docs(agents, DefaultAgents[i].agentId)) = 1
    ELSE seeded = 0

\* C10 as stated: every stored Agent document has a status of the enum.
C10_AsClaimed == \A d \in agents : d.status \in AgentStatuses

\* C2 as stated: a POST /api/agents/message that finds the log service
\* unavailable is answered 503.
C2_AsClaimed ==
  (done.op = "postMessage" /\ done.res \in {"nochroma", "chromaerr"}) => done.code = 503

StatusInFlight(a) == \E r \in inflight : r.op = "agentStatus" /\ r.aid = a

\* C3: once no agentStatus handler for an agentId is in flight, and the last
\* write to that agent came from an agentStatus event, the collection holds
\* exactly one document with that agentId, and its status and lastSeen are
\* the ones of the event whose update the store applied last.
C3_LastWriteWins ==
  \A a \in ClientAgentIds :
    (~StatusInFlight(a) /\ lastWrite[a].by = "event") =>
      Docs(agents, a) = {AgentDoc(a, lastWrite[a].status, lastWrite[a].at)}

\* Two events for one absent agentId both found no document; the one whose
\* insert the index refused was run again as an update and ended last.
C3_Witness ==
  /\ done.op = "agentStatus" /\ done.res = "retried"
  /\ ~StatusInFlight(done.aid)
  /\ Docs(agents, done.aid) = {AgentDoc(done.aid, done.status, done.at)}

\* C7: POST /api/agents that saved its document answers 201 and emits
\* agentRegistered once to every client, whether the registration in the
\* directory succeeded, failed or was skipped, and the directory is reached
\* only after the save; GET /api/agents that read the collection answers 200
\* with every agent that Agent.find() returned, each inactive when the
\* directory was not read; no handler other than the two of the message log
\* answers an error because of the vector store.
C7_Crud ==
  /\ (done.op = "postAgent" /\ done.wrote) =>
       /\ done.code = 201
       /\ done.emits = <<[event |-> "agentRegistered", to |-> sockets]>>
       /\ Docs(agents, done.aid) # {}
       /\ done.cres \in {"ok", "error", "skipped"}
  /\ (done.op = "postAgent" /\ done.cres # "") => done.wrote
  /\ (done.op = "listAgents" /\ done.res = "ok") =>
       /\ done.code = 200
       /\ done.found \subseteq AgentIdsOf(agents)
       /\ {DefaultAgents[i].agentId : i \in DOMAIN DefaultAgents} \subseteq done.found
       /\ done.cres \in {"error", "skipped"} =>
            \A a \in done.found : ChromaStatus(done, a) = "inactive"
  /\ (done.cres \in {"error", "skipped"} /\ done.op \notin {"postMessage", "getMessages"}) =>
       done.code \in {200, 201}

C7_Find ==
  \A r \in inflight :
    (r.op = "listAgents" /\ r.stage = "db" /\ r \notin inflight') =>
      \/ \E s \in inflight' : /\ s.op = "listAgents" /\ s.stage = "chroma"
                              /\ s.found = AgentIdsOf(agents)
      \/ /\ done'.op = "listAgents"
         /\ done'.res = "dberr" \/ done'.found = AgentIdsOf(agents)

C7_CrudUnblocked == []C7_Crud /\ [][C7_Find]_vars

C7_Witness ==
  /\ done.op = "postAgent" /\ done.cres = "error" /\ done.code = 201
  /\ ~chromaUp /\ sockets # {}

Mutating ==
  {"postProject", "putProject", "deleteProject", "postAgent", "putAgent", "postMessage"}

EventOf(op) ==
  CASE op = "postProject" -> "projectCreated"
    [] op = "putProject" -> "projectUpdated"
    [] op = "deleteProject" -> "projectDeleted"
    [] op = "postAgent" -> "agentRegistered"
    [] op = "putAgent" -> "agentUpdated"
    [] op = "postMessage" -> "newMessage"

Persisted(r) ==
  CASE r.op = "postProject" ->
         /\ r.pid \in DOMAIN projects
         /\ projects[r.pid] = [createdAt |-> r.at, status |-> r.status]
    [] r.op = "putProject" -> r.pid \in DOMAIN projects /\ projects[r.pid].status = r.status
    [] r.op = "deleteProject" -> r.pid \notin DOMAIN projects
    [] r.op = "postAgent" -> Docs(agents, r.aid) = {AgentDoc(r.aid, r.status, r.at)}
    [] r.op = "putAgent" -> Docs(agents, r.aid) = {AgentDoc(r.aid, r.status, r.at)}
    [] r.op = "postMessage" -> messageLog > 0

\* C8: a mutating REST handler that answers 200 or 201 has emitted its event
\* exactly once, to every client, and its write is in the store; one that
\* answers anything else (400, 404, 500, 503) has emitted nothing.
C8_EmitOnce ==
  done.op \in Mutating =>
    IF done.code \in {200, 201}
    THEN /\ done.emits = <<[event |-> EventOf(done.op), to |-> sockets]>>
         /\ done.wrote
         /\ Persisted(done)
    ELSE done.emits = <<>> /\ done.code \in {400, 404, 500, 503}

C8_Witness ==
  /\ done.op = "putProject" /\ done.code = 200 /\ Len(done.emits) = 1
  /\ done.emits[1].to # {}

\* C9: an agentStatus handler whose upsert was applied leaves the document of
\* the event's agentId with the event's status, and has emitted
\* agentStatusUpdate once, to every connected client except the sender,
\* whatever rooms the clients joined; one whose upsert failed has emitted
\* nothing; the process is running in both cases.
C9_Broadcast ==
  done.op = "agentStatus" =>
    /\ running
    /\ IF done.wrote
       THEN /\ done.emits = <<[event |-> "agentStatusUpdate", to |-> sockets \ {done.sock}]>>
            /\ Docs(agents, done.aid) = {AgentDoc(done.aid, done.status, done.at)}
       ELSE done.emits = <<>> /\ done.res \in {"dberr", "duplicate"}

\* The sender is in a room, a receiver is in none.
C9_Witness ==
  /\ done.op = "agentStatus" /\ done.wrote /\ done.res = "inserted"
  /\ done.sock \in sockets /\ rooms[done.sock] # {}
  /\ \E s \in sockets \ {done.sock} : rooms[s] = {} /\ s \in done.emits[1].to

=============================================================================
